---- MODULE Spec2Model ----
(***************************************************************************)
(* A model of regex_rename/rename.py: bulk_rename and the functions it     *)
(* calls (match_files, list_files, match_filename, match_regex_string,     *)
(* validate_replacement, expand_replacement, find_duplicates,              *)
(* rename_matches), over a small filesystem.                               *)
(*                                                                         *)
(* A Python str is a sequence of one-character strings, so that            *)
(* str.replace, str.zfill, sorted and the regular expression engine work   *)
(* on characters as the code does.  An Optional[str] is a record           *)
(* [some, v]: None is [some |-> FALSE, v |-> <<>>].                        *)
(***************************************************************************)
EXTENDS Integers, Sequences, FiniteSets, TLC

(***************************************************************************)
(* Python values.                                                          *)
(***************************************************************************)
None == [some |-> FALSE, v |-> <<>>]
Some(s) == [some |-> TRUE, v |-> s]

\* bool(x) of an Optional[str]: None and '' are falsy.
Truthy(o) == o.some /\ o.v # <<>>

BS == "\\"
\* The character U+00BD, the vulgar fraction one half.
Half == "U+00BD"

\* The characters of the model in code point order (str comparison, sorted).
CodePoints == << "-", "/", "0", "1", "2", "7", "A", "B", "D", "L", "U", "X",
                 BS, "a", "b", "d", "x", Half >>

Ord(c) == CHOOSE k \in 1..Len(CodePoints) : CodePoints[k] = c

DecimalDigits == {"0", "1", "2", "3", "4", "5", "6", "7", "8", "9"}
OctDigits == {"0", "1", "2", "3", "4", "5", "6", "7"}
\* str.isnumeric holds of the decimal digits and of every other character with
\* a Unicode numeric value, of which the model has the vulgar fraction one half.
NumericChars == DecimalDigits \cup {Half}
AsciiLetters == {"A", "B", "D", "L", "U", "X", "a", "b", "d", "g", "x"}
\* re: \w is str.isalnum or '_'; \d is the Unicode decimal digits.
WordChars == AsciiLetters \cup NumericChars

\* str.lower and str.upper, one character at a time.
LowerChar(c) ==
  CASE c = "A" -> "a" [] c = "B" -> "b" [] c = "D" -> "d" [] c = "L" -> "l"
    [] c = "U" -> "u" [] c = "X" -> "x" [] OTHER -> c
UpperChar(c) ==
  CASE c = "a" -> "A" [] c = "b" -> "B" [] c = "d" -> "D" [] c = "x" -> "X"
    [] c = "g" -> "G" [] OTHER -> c
Lower(s) == [k \in 1..Len(s) |-> LowerChar(s[k])]
Upper(s) == [k \in 1..Len(s) |-> UpperChar(s[k])]

\* str.isnumeric: at least one character and all of them numeric.
IsNumeric(s) == s # <<>> /\ \A k \in 1..Len(s) : s[k] \in NumericChars

RECURSIVE Zeros(_)
Zeros(n) == IF n <= 0 THEN <<>> ELSE <<"0">> \o Zeros(n - 1)

\* str.zfill(width): zeros on the left, after a leading sign.
ZFill(s, width) ==
  IF Len(s) >= width THEN s
  ELSE IF s # <<>> /\ s[1] \in {"+", "-"}
       THEN <<s[1]>> \o Zeros(width - Len(s)) \o Tail(s)
       ELSE Zeros(width - Len(s)) \o s

\* old is a prefix of s
StartsWith(s, old) ==
  Len(s) >= Len(old) /\ \A k \in 1..Len(old) : s[k] = old[k]

\* old in s
Contains(s, old) ==
  \E p \in 0..(Len(s) - Len(old)) : \A k \in 1..Len(old) : s[p + k] = old[k]

\* s.replace(old, new) for a non-empty old: every occurrence, left to right,
\* without overlap.
RECURSIVE Replace(_, _, _)
Replace(s, old, new) ==
  IF Len(s) < Len(old) THEN s
  ELSE IF StartsWith(s, old)
       THEN new \o Replace(SubSeq(s, Len(old) + 1, Len(s)), old, new)
       ELSE <<s[1]>> \o Replace(Tail(s), old, new)

DigitChar(d) == <<"0", "1", "2", "3", "4", "5", "6", "7", "8", "9">>[d + 1]
DigitVal(c) == CHOOSE d \in 0..9 : DigitChar(d) = c

\* str(index) of the f-strings
RECURSIVE IntToStr(_)
IntToStr(n) ==
  IF n < 10 THEN <<DigitChar(n)>> ELSE IntToStr(n \div 10) \o <<DigitChar(n % 10)>>

\* s < t for str: by code point, a proper prefix first.
RECURSIVE StrLess(_, _)
StrLess(s, t) ==
  IF t = <<>> THEN FALSE
  ELSE IF s = <<>> THEN TRUE
  ELSE IF s[1] = t[1] THEN StrLess(Tail(s), Tail(t))
  ELSE Ord(s[1]) < Ord(t[1])

\* sorted(list): insertion of each element into the sorted rest.
RECURSIVE SortInsert(_, _)
SortInsert(x, sq) ==
  IF sq = <<>> THEN <<x>>
  ELSE IF StrLess(sq[1], x) THEN <<sq[1]>> \o SortInsert(x, Tail(sq))
  ELSE <<x>> \o sq

\* sorted left out: the list in the order the file system gave it.
Unsorted(sq) == sq

RECURSIVE Sorted(_)
Sorted(sq) == IF sq = <<>> THEN <<>> ELSE SortInsert(sq[1], Sorted(Tail(sq)))

(***************************************************************************)
(* Regular expressions.  A pattern is a sequence of elements               *)
(* [kind, ch, q, g]: one atom (kind "lit": the character ch; "digit": \d;  *)
(* "word": \w), matched once (q = "1") or greedily one or more times       *)
(* (q = "+"), and not captured (g = "n"), captured (g = "c": (atom)) or    *)
(* captured optionally (g = "o": (atom)?).  Matching is re's: backtracking *)
(* in priority order, the longest run first, an optional group tried       *)
(* before it is skipped; a skipped group did not participate (None).       *)
(***************************************************************************)
Lit(c, g) == [kind |-> "lit", ch |-> c, q |-> "1", g |-> g]
Digit(q, g) == [kind |-> "digit", ch |-> "", q |-> q, g |-> g]
Word(q, g) == [kind |-> "word", ch |-> "", q |-> q, g |-> g]

ClassHas(e, c) ==
  CASE e.kind = "lit" -> c = e.ch
    [] e.kind = "digit" -> c \in DecimalDigits
    [] e.kind = "word" -> c \in WordChars

\* re.compile(pattern).groups
RECURSIVE GroupCount(_)
GroupCount(pat) ==
  IF pat = <<>> THEN 0
  ELSE (IF pat[1].g = "n" THEN 0 ELSE 1) + GroupCount(Tail(pat))

NoMatch == [ok |-> FALSE, groups |-> <<>>, start |-> 0, end |-> 0]

\* The number of characters of s from pos on that element e can take.
RECURSIVE RunLen(_, _, _)
RunLen(e, s, pos) ==
  IF pos > Len(s) \/ ~ClassHas(e, s[pos]) THEN 0
  ELSE IF e.q = "1" THEN 1
  ELSE 1 + RunLen(e, s, pos + 1)

RECURSIVE MatchSeq(_, _, _, _, _, _)
RECURSIVE TryRun(_, _, _, _, _, _, _)
\* Elements i.. of pat matched against s from pos on; gs are the groups so far.
MatchSeq(pat, s, i, pos, gs, full) ==
  IF i > Len(pat)
  THEN IF full /\ pos # Len(s) + 1 THEN NoMatch
       ELSE [ok |-> TRUE, groups |-> gs, start |-> 0, end |-> pos]
  ELSE TryRun(pat, s, i, pos, gs, full, RunLen(pat[i], s, pos))

\* Element i taking n characters, then n - 1, ..., then (optional group) none.
TryRun(pat, s, i, pos, gs, full, n) ==
  IF n < 1
  THEN IF pat[i].g = "o"
       THEN MatchSeq(pat, s, i + 1, pos, Append(gs, None), full)
       ELSE NoMatch
  ELSE LET gs2 == IF pat[i].g = "n" THEN gs
                  ELSE Append(gs, Some(SubSeq(s, pos, pos + n - 1)))
           r == MatchSeq(pat, s, i + 1, pos + n, gs2, full)
       IN IF r.ok THEN r ELSE TryRun(pat, s, i, pos, gs, full, n - 1)

\* re.search: the first start position, left to right, with a match.
RECURSIVE SearchFrom(_, _, _)
SearchFrom(pat, s, start) ==
  IF start > Len(s) + 1 THEN NoMatch
  ELSE LET r == MatchSeq(pat, s, 1, start, <<>>, FALSE)
       IN IF r.ok THEN [r EXCEPT !.start = start]
          ELSE SearchFrom(pat, s, start + 1)

\* re.fullmatch
FullMatch(pat, s) ==
  LET r == MatchSeq(pat, s, 1, 1, <<>>, TRUE)
  IN IF r.ok THEN [r EXCEPT !.start = 1] ELSE NoMatch

match_regex_string(pat, filename, full) ==
  IF full THEN FullMatch(pat, filename) ELSE SearchFrom(pat, filename, 1)

(***************************************************************************)
(* re.Match.expand's parse of a replacement template (re._parser's         *)
(* parse_template), for a pattern with G groups, none of them named.       *)
(* The result is "ok" or the error expand raises.                          *)
(***************************************************************************)
TemplateEscapes == {"a", "b", "f", "n", "r", "t", "v", BS}

\* The token that starts at q is a lone backslash at the end of t: the
\* Tokenizer raises "bad escape (end of pattern)" when it reads it, which it
\* does one token ahead, as the token before it is taken.
LoneEnd(t, q) == q = Len(t) /\ t[q] = BS

EndOfPattern == "bad escape (end of pattern)"

RECURSIVE ParseTemplate(_, _, _)
\* The parse from the token that starts at p on (the Tokenizer's next).
ParseTemplate(t, p, G) ==
  IF p > Len(t) THEN "ok"
  ELSE IF LoneEnd(t, p) THEN EndOfPattern
  ELSE IF LoneEnd(t, p + (IF t[p] = BS THEN 2 ELSE 1)) THEN EndOfPattern
  ELSE IF t[p] # BS THEN ParseTemplate(t, p + 1, G)
  ELSE LET c == t[p + 1]
           n1 == IF p + 2 <= Len(t) THEN t[p + 2] ELSE ""
           n2 == IF p + 3 <= Len(t) THEN t[p + 3] ELSE ""
       IN CASE c = "g" ->
                 \* \g<name>: no character of the model is "<"
                 IF n1 # "<" THEN "missing <" ELSE "unknown group name"
            [] c = "0" ->
                 IF n1 \in OctDigits
                 THEN IF LoneEnd(t, p + 3) THEN EndOfPattern
                      ELSE IF n2 \in OctDigits
                      THEN IF LoneEnd(t, p + 4) THEN EndOfPattern
                           ELSE ParseTemplate(t, p + 4, G)
                      ELSE ParseTemplate(t, p + 3, G)
                 ELSE ParseTemplate(t, p + 2, G)
            [] c \in DecimalDigits \ {"0"} ->
                 IF n1 \in DecimalDigits
                 THEN IF LoneEnd(t, p + 3) THEN EndOfPattern
                      ELSE IF c \in OctDigits /\ n1 \in OctDigits /\ n2 \in OctDigits
                      THEN IF LoneEnd(t, p + 4) THEN EndOfPattern
                           ELSE IF 64 * DigitVal(c) + 8 * DigitVal(n1) + DigitVal(n2) > 255
                           THEN "octal escape value outside of range"
                           ELSE ParseTemplate(t, p + 4, G)
                      ELSE IF 10 * DigitVal(c) + DigitVal(n1) > G
                           THEN "invalid group reference"
                           ELSE ParseTemplate(t, p + 3, G)
                 ELSE IF DigitVal(c) > G THEN "invalid group reference"
                      ELSE ParseTemplate(t, p + 2, G)
            [] c \in TemplateEscapes -> ParseTemplate(t, p + 2, G)
            [] c \in AsciiLetters -> "bad escape"
            [] OTHER -> ParseTemplate(t, p + 2, G)

\* validate_replacement left out: every template is taken as valid.
ValidateNothing(G, replacement_pattern) == "ok"

\* validate_replacement: "ok", or the error re_match.expand raises.
validate_replacement(G, replacement_pattern) ==
  LET simplified == Replace(Replace(replacement_pattern, <<BS, "L">>, <<>>),
                            <<BS, "U">>, <<>>)
  IN ParseTemplate(simplified, 1, G)

\* One turn of expand_replacement's loop, for group number index.
ExpandGroup(new_name, index, g) ==
  LET group == IF g.some THEN g.v ELSE <<>>
      ref == <<BS>> \o IntToStr(index)
      n1 == IF Contains(new_name, <<BS, "L">>)
            THEN Replace(new_name, <<BS, "L">> \o ref, Lower(group))
            ELSE new_name
      n2 == IF Contains(n1, <<BS, "U">>)
            THEN Replace(n1, <<BS, "U">> \o ref, Upper(group))
            ELSE n1
  IN Replace(n2, ref, group)

RECURSIVE ExpandFrom(_, _, _)
ExpandFrom(new_name, group_dict, index) ==
  IF index > Len(group_dict) THEN new_name
  ELSE ExpandFrom(ExpandGroup(new_name, index, group_dict[index]),
                  group_dict, index + 1)

\* expand_replacement: group_dict is the sequence of the groups 1..G.
expand_replacement(replacement_pattern, group_dict) ==
  ExpandFrom(replacement_pattern, group_dict, 1)

\* The padding loop of match_filename.
PadGroup(group, padding) ==
  IF group.some /\ IsNumeric(group.v) THEN Some(ZFill(group.v, padding)) ELSE group

PadGroups(groups, padding) ==
  IF padding # 0 THEN [k \in 1..Len(groups) |-> PadGroup(groups[k], padding)]
  ELSE groups

\* match_filename: None (kind "none"), a Match (kind "match") or the error of
\* validate_replacement (kind "raise").
match_filename(filename, pat, replacement_pattern, full, padding) ==
  LET re_match == match_regex_string(pat, filename, full)
      group_dict == PadGroups(re_match.groups, padding)
      valid == validate_replacement(GroupCount(pat), replacement_pattern.v)
  IN IF ~re_match.ok
     THEN [kind |-> "none", name_from |-> filename, name_to |-> None,
           groups |-> <<>>, why |-> "no match"]
     ELSE IF ~Truthy(replacement_pattern)
     THEN [kind |-> "match", name_from |-> filename, name_to |-> None,
           groups |-> group_dict, why |-> ""]
     ELSE IF valid # "ok"
     THEN [kind |-> "raise", name_from |-> filename, name_to |-> None,
           groups |-> group_dict, why |-> valid]
     ELSE [kind |-> "match", name_from |-> filename,
           name_to |-> Some(expand_replacement(replacement_pattern.v, group_dict)),
           groups |-> group_dict, why |-> ""]

(***************************************************************************)
(* match_files and find_duplicates.                                        *)
(***************************************************************************)
Match(name_from, name_to, groups) ==
  [name_from |-> name_from, name_to |-> name_to, groups |-> groups]

\* [m for m in matches if m is not None]
RECURSIVE MatchesOf(_)
MatchesOf(results) ==
  IF results = <<>> THEN <<>>
  ELSE (IF results[1].kind = "match"
        THEN <<Match(results[1].name_from, results[1].name_to, results[1].groups)>>
        ELSE <<>>) \o MatchesOf(Tail(results))

\* match_files lines 61-63, on the sorted names: the matches, or the error the
\* first failing match_filename raised (raised # "").
match_filenames(filenames, pat, replacement_pattern, full, padding) ==
  LET results == [k \in 1..Len(filenames) |->
                    match_filename(filenames[k], pat, replacement_pattern, full, padding)]
      bad == {k \in 1..Len(results) : results[k].kind = "raise"}
  IN IF bad # {}
     THEN [raised |-> results[CHOOSE k \in bad : \A j \in bad : k <= j].why,
           matches |-> <<>>]
     ELSE [raised |-> "", matches |-> MatchesOf(results)]

\* names.count(name)
Count(names, name) == Cardinality({k \in 1..Len(names) : names[k] = name})

\* find_duplicates that takes a name for a duplicate from its third use on.
FindTriplicates(ms) ==
  LET names == [k \in 1..Len(ms) |-> ms[k].name_to]
  IN {names[k] : k \in {j \in 1..Len(names) : Count(names, names[j]) > 2}}

\* find_duplicates: the set it names in its error; it raises when this is not empty.
find_duplicates(ms) ==
  LET names == [k \in 1..Len(ms) |-> ms[k].name_to]
  IN {names[k] : k \in {j \in 1..Len(names) : Count(names, names[j]) > 1}}

(***************************************************************************)
(* The filesystem under the working directory: files maps the relative     *)
(* path of each regular file to its content, dirs is the set of            *)
(* directories (the working directory itself left out).  Paths are         *)
(* relative and have no "." or ".." component.                             *)
(***************************************************************************)
\* The components of a path: pathlib and the kernel skip empty ones.
RECURSIVE SplitFrom(_, _, _)
SplitFrom(path, p, cur) ==
  IF p > Len(path) THEN (IF cur = <<>> THEN <<>> ELSE <<cur>>)
  ELSE IF path[p] = "/"
       THEN (IF cur = <<>> THEN <<>> ELSE <<cur>>) \o SplitFrom(path, p + 1, <<>>)
       ELSE SplitFrom(path, p + 1, Append(cur, path[p]))

Split(path) == SplitFrom(path, 1, <<>>)

RECURSIVE Join(_)
Join(parts) ==
  IF parts = <<>> THEN <<>>
  ELSE IF Len(parts) = 1 THEN parts[1]
  ELSE parts[1] \o <<"/">> \o Join(Tail(parts))

\* The path the kernel resolves a name to.
Norm(path) == Join(Split(path))

\* Path(name).parent, as the sequence of its components (<<>> is ".").
ParentParts(path) ==
  LET parts == Split(path)
  IN IF parts = <<>> THEN <<>> ELSE SubSeq(parts, 1, Len(parts) - 1)

\* list_files: the direct children that are files, or every file of the tree.
list_files(fs, recursive) ==
  IF recursive THEN DOMAIN fs
  ELSE {f \in DOMAIN fs : Len(Split(f)) = 1}

\* Path(name_to).parent.mkdir(parents=True, exist_ok=True): every missing
\* ancestor is created, outermost first; an ancestor that is a file fails it.
Mkdir(fs, ds, name_to) ==
  LET parts == ParentParts(name_to)
      anc(k) == Join(SubSeq(parts, 1, k))
      bad == {k \in 1..Len(parts) : anc(k) \in DOMAIN fs}
      upto == IF bad = {} THEN Len(parts)
              ELSE (CHOOSE k \in bad : \A j \in bad : k <= j) - 1
  IN [ok |-> bad = {}, dirs |-> ds \cup {anc(k) : k \in 1..upto}]

\* Path(name_from).rename(name_to) fails: no such source, a target that names
\* a directory (as it is, or by a trailing "/").
RenameFails(fs, ds, name_from, name_to) ==
  \/ name_from \notin DOMAIN fs
  \/ name_to = <<>>
  \/ name_to[Len(name_to)] = "/"
  \/ Norm(name_to) \in ds

\* A rename that leaves the source in place (a copy).
RenameKeepingSource(fs, name_from, name_to) ==
  LET to == Norm(name_to)
  IN [n \in DOMAIN fs \cup {to} |-> IF n = to THEN fs[name_from] ELSE fs[n]]

\* Path(name_from).rename(name_to) on POSIX: an existing target file is replaced.
Rename(fs, name_from, name_to) ==
  LET to == Norm(name_to)
  IN [n \in (DOMAIN fs \ {name_from}) \cup {to} |->
        IF n = to THEN fs[name_from] ELSE fs[n]]

\* The branch taken when the testing flag is not looked at.
BranchIgnoringTesting(is_testing, replacement_pattern) ==
  IF Truthy(replacement_pattern) THEN "rename" ELSE "raise"

\* The branch taken when a missing template is not looked for.
BranchWithoutTemplateCheck(is_testing, replacement_pattern) ==
  IF is_testing THEN "report" ELSE "rename"

\* The branch bulk_rename takes after the duplicate check.
Branch(is_testing, replacement_pattern) ==
  IF is_testing THEN "report"
  ELSE IF Truthy(replacement_pattern) THEN "rename"
  ELSE "raise"

(***************************************************************************)
(* The inputs of a run.                                                    *)
(***************************************************************************)
MaxFiles == 3
MaxPadding == 3

\* The names a file of the initial tree may have.
FileUniverse ==
  { <<"a", "1">>, <<"a", "2">>, <<"A", "b">>, <<"x", "1">>, <<"1", "a">>,
    <<"a", Half>>, <<"d", "/", "a", "1">> }

\* A directory the initial tree holds besides the parents of its files.
ExtraDirs == { <<"x", "2">> }

\* a(\d)
PatA == << Lit("a", "n"), Digit("1", "c") >>
\* (\w)(\w+)
PatTwo == << Word("1", "c"), Word("+", "c") >>
\* a(\d)?(\w)?
PatOpt == << Lit("a", "n"), Digit("1", "o"), Word("1", "o") >>
\* (a)(x)?(x)?(x)?(x)?(x)?(x)?(x)?(x)?(\d)
PatTen == << Lit("a", "c"), Lit("x", "o"), Lit("x", "o"), Lit("x", "o"),
             Lit("x", "o"), Lit("x", "o"), Lit("x", "o"), Lit("x", "o"),
             Lit("x", "o"), Digit("1", "c") >>

Patterns == { PatA, PatTwo, PatOpt, PatTen }

Templates ==
  { None,
    Some(<<>>),
    Some(<<"x", BS, "1">>),                              \* x\1
    Some(<<"x">>),                                       \* x
    Some(<<BS, "2">>),                                   \* \2
    Some(<<BS, "2", BS, "1">>),                          \* \2\1
    Some(<<BS, "L", BS, "1", "-", BS, "U", BS, "2">>),   \* \L\1-\U\2
    Some(<<"d", "/", BS, "1">>),                         \* d/\1
    Some(<<BS, "1", "0">>),                              \* \10
    Some(<<BS, "L", BS, "1", "0">>) }                    \* \L\10

Paddings == {0, MaxPadding}

\* The file sets of at most MaxFiles files.
FileSets == {S \in SUBSET FileUniverse : Cardinality(S) <= MaxFiles}

\* The directories that hold the files of S.
ParentsOf(S) ==
  UNION { {Join(SubSeq(ParentParts(f), 1, k)) : k \in 1..Len(ParentParts(f))} : f \in S }

\* The orders in which the file system may enumerate the set S.
Orders(S) ==
  {sq \in [1..Cardinality(S) -> S] : \A i, j \in 1..Cardinality(S) : i # j => sq[i] # sq[j]}

(***************************************************************************)
(* bulk_rename as a state machine.                                         *)
(***************************************************************************)
VARIABLES
  pattern, replacement_pattern, testing, full, recursive, padding, \* arguments
  files0, dirs0,       \* the tree when bulk_rename is called
  files, dirs,         \* the tree now
  pc,                  \* where bulk_rename is
  filenames,           \* match_files: the sorted names of the listed files
  matches,             \* the list match_files returned
  index,               \* rename_matches: the match the loop is at (from 1)
  err, errNames,       \* the error raised, the names a duplicate error lists
  ops                  \* the filesystem calls made so far, in order

args == <<pattern, replacement_pattern, testing, full, recursive, padding, files0, dirs0>>
vars == <<pattern, replacement_pattern, testing, full, recursive, padding, files0, dirs0,
          files, dirs, pc, filenames, matches, index, err, errNames, ops>>

Init ==
  /\ pattern \in Patterns
  /\ replacement_pattern \in Templates
  /\ testing \in BOOLEAN
  /\ full \in BOOLEAN
  /\ recursive \in BOOLEAN
  /\ padding \in Paddings
  /\ \E S \in FileSets : files0 = [f \in S |-> f]
  /\ dirs0 = ParentsOf(DOMAIN files0) \cup ExtraDirs
  /\ files = files0
  /\ dirs = dirs0
  /\ pc = "start"
  /\ filenames = <<>>
  /\ matches = <<>>
  /\ index = 0
  /\ err = ""
  /\ errNames = {}
  /\ ops = <<>>

Raise(e) == pc' = "raised" /\ err' = e

\* match_files lines 59-60: the files are listed, in any order, and their
\* names sorted.
ListFiles ==
  /\ pc = "start"
  /\ \E listing \in Orders(list_files(files, recursive)) :
       filenames' = Sorted(listing)
  /\ pc' = "listed"
  /\ UNCHANGED <<args, files, dirs, matches, index, err, errNames, ops>>

\* match_files lines 61-63, then bulk_rename lines 35-36: match_filename on
\* every name, then log_info of every match.
MatchFilenames ==
  /\ pc = "listed"
  /\ LET r == match_filenames(filenames, pattern, replacement_pattern, full, padding)
     IN IF r.raised # ""
        THEN Raise("InvalidReplacementTemplate") /\ UNCHANGED matches
        ELSE pc' = "matched" /\ matches' = r.matches /\ UNCHANGED err
  /\ UNCHANGED <<args, files, dirs, filenames, index, errNames, ops>>

\* bulk_rename lines 38-39
FindDuplicates ==
  /\ pc = "matched"
  /\ IF Truthy(replacement_pattern) /\ find_duplicates(matches) # {}
     THEN Raise("DuplicateTarget") /\ errNames' = find_duplicates(matches)
     ELSE pc' = "checked" /\ UNCHANGED <<err, errNames>>
  /\ UNCHANGED <<args, files, dirs, filenames, matches, index, ops>>

\* bulk_rename lines 41-42, 48
Report ==
  /\ pc = "checked"
  /\ Branch(testing, replacement_pattern) = "report"
  /\ pc' = "done"
  /\ UNCHANGED <<args, files, dirs, filenames, matches, index, err, errNames, ops>>

\* bulk_rename lines 43-44: rename_matches is entered
EnterRename ==
  /\ pc = "checked"
  /\ Branch(testing, replacement_pattern) = "rename"
  /\ pc' = "loop"
  /\ index' = 1
  /\ UNCHANGED <<args, files, dirs, filenames, matches, err, errNames, ops>>

\* bulk_rename lines 46-47
MissingReplacement ==
  /\ pc = "checked"
  /\ Branch(testing, replacement_pattern) = "raise"
  /\ Raise("MissingReplacement")
  /\ UNCHANGED <<args, files, dirs, filenames, matches, index, errNames, ops>>

\* The match after match k in rename_matches' loop.
NextIndex(k) == k + 1

\* rename_matches lines 142-143: the assert and the mkdir of match index.
MkParents ==
  /\ pc = "loop"
  /\ index <= Len(matches)
  /\ LET m == matches[index]
         r == Mkdir(files, dirs, m.name_to.v)
     IN IF ~Truthy(m.name_to)
        THEN Raise("AssertionError") /\ UNCHANGED <<dirs, ops>>
        ELSE /\ dirs' = r.dirs
             /\ ops' = Append(ops, [op |-> "mkdir", k |-> index])
             /\ IF r.ok THEN pc' = "rename" /\ UNCHANGED err ELSE Raise("OSError")
  /\ UNCHANGED <<args, files, filenames, matches, index, errNames>>

\* rename_matches line 144: the rename of match index.
RenameMatch ==
  /\ pc = "rename"
  /\ LET m == matches[index]
     IN /\ ops' = Append(ops, [op |-> "rename", k |-> index])
        /\ IF RenameFails(files, dirs, m.name_from, m.name_to.v)
           THEN Raise("OSError") /\ UNCHANGED <<files, index>>
           ELSE /\ files' = Rename(files, m.name_from, m.name_to.v)
                /\ index' = NextIndex(index)
                /\ pc' = "loop"
                /\ UNCHANGED err
  /\ UNCHANGED <<args, dirs, filenames, matches, errNames>>

\* rename_matches line 144: the rename fails for a reason outside the tree
\* (permissions, a full disk, a platform that refuses an existing target).
RenameError ==
  /\ pc = "rename"
  /\ ops' = Append(ops, [op |-> "rename", k |-> index])
  /\ Raise("OSError")
  /\ UNCHANGED <<args, files, dirs, filenames, matches, index, errNames>>

\* rename_matches returns; bulk_rename lines 45, 48
Return ==
  /\ pc = "loop"
  /\ index > Len(matches)
  /\ pc' = "done"
  /\ UNCHANGED <<args, files, dirs, filenames, matches, index, err, errNames, ops>>

Next ==
  \/ ListFiles
  \/ MatchFilenames
  \/ FindDuplicates
  \/ Report
  \/ EnterRename
  \/ MissingReplacement
  \/ MkParents
  \/ RenameMatch
  \/ RenameError
  \/ Return

Spec == Init /\ [][Next]_vars

(***************************************************************************)
(* What the properties below speak of.                                     *)
(***************************************************************************)
\* match_files has returned its list (it did not raise).
MatchesBuilt == pc \notin {"start", "listed"} /\ err # "InvalidReplacementTemplate"

\* The files the listing holds: of the working directory, or of the whole tree.
Listed ==
  IF recursive THEN DOMAIN files0
  ELSE {f \in DOMAIN files0 : \A p \in 1..Len(f) : f[p] # "/"}

\* The listed files whose names the pattern matches.
Matching == {f \in Listed : match_regex_string(pattern, f, full).ok}

\* The filesystem is as it was when bulk_rename was called, and no call that
\* writes to it has been made.
Untouched == files = files0 /\ dirs = dirs0 /\ ops = <<>>

\* The target names that two or more matches share.
Colliding ==
  {t \in {matches[k].name_to : k \in 1..Len(matches)} :
     /\ t.some
     /\ \E i, j \in 1..Len(matches) :
          i # j /\ matches[i].name_to = t /\ matches[j].name_to = t}

\* The length of the run of decimal digits of t from position q on.
RECURSIVE DigitRun(_, _)
DigitRun(t, q) ==
  IF q > Len(t) \/ t[q] \notin DecimalDigits THEN 0 ELSE 1 + DigitRun(t, q + 1)

RECURSIVE StrToInt(_)
StrToInt(ds) ==
  IF ds = <<>> THEN 0 ELSE 10 * StrToInt(SubSeq(ds, 1, Len(ds) - 1)) + DigitVal(ds[Len(ds)])

\* The template with its case markers taken out.
Unmarked(t) == Replace(Replace(t, <<BS, "L">>, <<>>), <<BS, "U">>, <<>>)

\* The template t refers to a group the pattern does not have: a backslash that
\* is not itself escaped, followed by one or two digits that spell a number
\* above G.
RefsMissingGroup(t, G) ==
  LET u == Unmarked(t)
  IN \E p \in 1..Len(u) :
       /\ u[p] = BS
       /\ (p = 1 \/ u[p - 1] # BS)
       /\ DigitRun(u, p + 1) \in {1, 2}
       /\ u[p + 1] # "0"
       /\ StrToInt(SubSeq(u, p + 1, p + DigitRun(u, p + 1))) > G

\* The value a reference to group n stands for.
GroupValue(groups, n) == IF groups[n].some THEN groups[n].v ELSE <<>>

\* The expansion of template t read once from left to right: \N is the value
\* of group N, \L\N and \U\N its value in lower and in upper case, N being the
\* one or two digits that follow (a number of a group of the pattern).
RECURSIVE Expansion(_, _, _)
Expansion(t, p, groups) ==
  LET isRef(q) == /\ q + 1 <= Len(t)
                  /\ t[q] = BS
                  /\ t[q + 1] \in DecimalDigits \ {"0"}
      width(q) == IF DigitRun(t, q + 1) >= 2 THEN 2 ELSE 1
      num(q) == StrToInt(SubSeq(t, q + 1, q + width(q)))
  IN IF p > Len(t) THEN <<>>
     ELSE IF isRef(p) /\ num(p) <= Len(groups)
     THEN GroupValue(groups, num(p)) \o Expansion(t, p + 1 + width(p), groups)
     ELSE IF /\ p + 1 <= Len(t) /\ t[p] = BS /\ t[p + 1] \in {"L", "U"}
             /\ isRef(p + 2) /\ num(p + 2) <= Len(groups)
     THEN (IF t[p + 1] = "L" THEN Lower(GroupValue(groups, num(p + 2)))
           ELSE Upper(GroupValue(groups, num(p + 2))))
          \o Expansion(t, p + 3 + width(p + 2), groups)
     ELSE <<t[p]>> \o Expansion(t, p + 1, groups)

HasDirective(t) == Contains(t, <<BS, "L">>) \/ Contains(t, <<BS, "U">>)

\* The groups of match k as the regular expression captured them.
RawGroups(k) == match_regex_string(pattern, matches[k].name_from, full).groups

\* s is one or more decimal digits.
AllDecimal(s) == s # <<>> /\ \A p \in 1..Len(s) : s[p] \in DecimalDigits

\* The tree after the first n matches have been moved, one after the other,
\* each to its target.
RECURSIVE Moved(_, _, _)
Moved(fs, ms, n) ==
  IF n = 0 THEN fs
  ELSE LET before == Moved(fs, ms, n - 1)
           from == ms[n].name_from
           to == Norm(ms[n].name_to.v)
       IN [f \in (DOMAIN before \ {from}) \cup {to} |->
             IF f = to THEN before[from] ELSE before[f]]

\* The renames that have succeeded.
Renamed ==
  CASE pc \in {"loop", "rename"} -> index - 1
    [] pc = "raised" /\ err \in {"OSError", "AssertionError"} -> index - 1
    [] pc = "done" /\ ~testing -> Len(matches)
    [] OTHER -> 0

(***************************************************************************)
(* Properties.                                                             *)
(***************************************************************************)

\* C1: when a template is given and two or more of the matches match_files
\* built have the same name_to, bulk_rename raises the duplicate-target error,
\* the error names exactly the colliding targets, and rename_matches is never
\* entered: no rename and no mkdir has been made, with testing on or off.
C1_DuplicateTargetsAbort ==
  (MatchesBuilt /\ replacement_pattern.some /\ Colliding # {}) =>
    /\ Untouched
    /\ \/ pc = "matched"
       \/ pc = "raised" /\ err = "DuplicateTarget" /\ errNames = Colliding

\* Three matches, two of them with the same target, testing off: the error is
\* raised and names the one colliding target.
C1_Witness ==
  /\ pc = "raised" /\ err = "DuplicateTarget" /\ ~testing
  /\ Len(matches) = 3
  /\ Cardinality(Colliding) = 1
  /\ errNames = Colliding

\* C2: with testing (dry run) on, the tree (file names, contents, directories)
\* is in every state of the call what it was at its start, and no call that
\* writes has been made, whatever the other arguments are and whether the
\* call returns or raises.
C2_DryRunLeavesTreeUnchanged == testing => Untouched

\* A dry run with a template has returned two matches whose targets differ
\* from their sources.
C2_Witness ==
  /\ testing /\ pc = "done" /\ Len(matches) >= 2
  /\ \A k \in 1..Len(matches) :
       matches[k].name_to.some /\ matches[k].name_to.v # matches[k].name_from

\* C3 as stated: whenever the template refers to a group the pattern does not
\* have, bulk_rename fails with the invalid-template error, for every file
\* list, with testing on or off, and nothing is renamed.
C3_InvalidTemplateAlwaysFails ==
  (replacement_pattern.some
     /\ RefsMissingGroup(replacement_pattern.v, GroupCount(pattern))) =>
    /\ pc # "done"
    /\ pc = "raised" => (err = "InvalidReplacementTemplate" /\ Untouched)

\* C3 as amended: whenever the template refers to a group the pattern does not
\* have and at least one listed file matches the pattern, bulk_rename fails
\* with the invalid-template error, with testing on or off, and nothing is
\* renamed.
C3_InvalidTemplateFailsOnAMatch ==
  (replacement_pattern.some
     /\ RefsMissingGroup(replacement_pattern.v, GroupCount(pattern))
     /\ Matching # {}) =>
    /\ Untouched
    /\ \/ pc \in {"start", "listed"}
       \/ pc = "raised" /\ err = "InvalidReplacementTemplate"

\* A dry run whose template refers to a missing group has raised the error,
\* the second of the listed files being the first that matches.
C3_Witness ==
  /\ testing /\ pc = "raised" /\ err = "InvalidReplacementTemplate"
  /\ RefsMissingGroup(replacement_pattern.v, GroupCount(pattern))
  /\ Cardinality(Matching) = 1 /\ Cardinality(Listed) = 2
  /\ \E f \in Listed \ Matching : \A g \in Matching : StrLess(f, g)

\* C4: with testing off and no template, bulk_rename fails with the
\* missing-replacement error and the tree is unchanged: rename_matches is
\* never entered, whatever the files and the pattern are (the matching has
\* run by then).
C4_MissingReplacementFails ==
  (~testing /\ ~Truthy(replacement_pattern)) =>
    /\ Untouched
    /\ pc \in {"start", "listed", "matched", "checked", "raised"}
    /\ pc = "raised" => err = "MissingReplacement"

\* Testing off, no template, two files matched: the error has been raised.
C4_Witness ==
  /\ ~testing /\ replacement_pattern = None
  /\ pc = "raised" /\ err = "MissingReplacement"
  /\ Len(matches) = 2

\* C5: for a template that passed validate_replacement and has no case
\* marker, expand_replacement gives the template with every back-reference \i
\* (1 <= i <= G, for every G, G >= 10 too) replaced by the padded value of
\* group i, an absent group counting as the empty string, and no reference
\* left.
C5_PlainReferencesExpanded ==
  (MatchesBuilt /\ Truthy(replacement_pattern)
     /\ ~HasDirective(replacement_pattern.v)) =>
    \A k \in 1..Len(matches) :
      matches[k].name_to =
        Some(Expansion(replacement_pattern.v, 1, matches[k].groups))

\* C6: expand_replacement replaces every \L\i by the value of group i in lower
\* case and every \U\i by its value in upper case, the reference of a
\* directive never being taken as a plain back-reference.
C6_CaseDirectivesExpanded ==
  (MatchesBuilt /\ Truthy(replacement_pattern)
     /\ HasDirective(replacement_pattern.v)) =>
    \A k \in 1..Len(matches) :
      matches[k].name_to =
        Some(Expansion(replacement_pattern.v, 1, matches[k].groups))

\* C7: with padding > 0, a group of a matched name that consists of decimal
\* digits only and is shorter than padding is padded on the left with "0" to
\* exactly padding characters; a group that is as long as padding or longer,
\* or holds a character that is no decimal digit, or is absent, is left as
\* it is; the padded groups are those of the Match and of the expansion.
C7_PaddingOfDecimalGroups ==
  (MatchesBuilt /\ padding > 0) =>
    \A k \in 1..Len(matches) :
      /\ Len(matches[k].groups) = Len(RawGroups(k))
      /\ \A i \in 1..Len(RawGroups(k)) :
           LET raw == RawGroups(k)[i]
           IN matches[k].groups[i] =
                IF raw.some /\ AllDecimal(raw.v) /\ Len(raw.v) < padding
                THEN Some(Zeros(padding - Len(raw.v)) \o raw.v)
                ELSE raw
      /\ Truthy(replacement_pattern) =>
           matches[k].name_to =
             Some(expand_replacement(replacement_pattern.v, matches[k].groups))

\* C8: whatever the order in which the files are enumerated, match_files
\* returns one Match for each listed file whose name the pattern matches, none
\* for a file it does not match, and the list is in ascending order of
\* name_from.
C8_MatchesAreTheMatchingFilesInOrder ==
  MatchesBuilt =>
    /\ {matches[k].name_from : k \in 1..Len(matches)} = Matching
    /\ Len(matches) = Cardinality(Matching)
    /\ \A i, j \in 1..Len(matches) :
         i < j => StrLess(matches[i].name_from, matches[j].name_from)

\* Three files were listed, one does not match and is dropped, the two others
\* are returned.
C8_Witness ==
  /\ pc = "matched"
  /\ Cardinality(Listed) = 3
  /\ Len(matches) = 2

\* C9: rename_matches takes the matches in the order of the list, for each
\* first makes sure the parent directories of the target exist and then moves
\* the source to the target; when the step for match k fails the error is
\* raised, the moves of matches 1..k-1 stay applied and nothing is done for
\* the matches after k.
C9_RenamesInOrderStopAtFirstError ==
  /\ \A j \in 1..Len(ops) :
       ops[j] = [op |-> IF j % 2 = 1 THEN "mkdir" ELSE "rename", k |-> (j + 1) \div 2]
  /\ files = Moved(files0, matches, Renamed)
  /\ \A k \in 1..Renamed :
       LET parts == ParentParts(matches[k].name_to.v)
       IN \A n \in 1..Len(parts) : Join(SubSeq(parts, 1, n)) \in dirs
  /\ pc = "loop" => Len(ops) = 2 * (index - 1)
  /\ pc = "rename" => Len(ops) = 2 * index - 1
  /\ (pc = "done" /\ ~testing) => Len(ops) = 2 * Len(matches)
  /\ (pc = "raised" /\ err \in {"OSError", "AssertionError"}) =>
       /\ index <= Len(matches)
       /\ Len(ops) \in {2 * (index - 1), 2 * index - 1, 2 * index}

\* The rename of the second of three matches failed: the first move, into a
\* directory that had to be made, stays, and nothing was done for the third.
C9_Witness ==
  /\ pc = "raised" /\ err = "OSError"
  /\ Len(matches) = 3 /\ index = 2 /\ Len(ops) = 4
  /\ files # files0
  /\ dirs # dirs0

\* C10: when bulk_rename with testing off returns, no content is lost: the
\* content of every matched file is at the target of its match and every
\* file that was not matched has its name and content.
C10_NoContentLost ==
  (pc = "done" /\ ~testing) =>
    /\ \A k \in 1..Len(matches) :
         LET to == Norm(matches[k].name_to.v)
         IN to \in DOMAIN files /\ files[to] = files0[matches[k].name_from]
    /\ \A f \in DOMAIN files0 \ {matches[k].name_from : k \in 1..Len(matches)} :
         f \in DOMAIN files /\ files[f] = files0[f]

====
